---- MODULE Spec2Model ----
(***************************************************************************)
(* Voice-driven chess session of chess_engine.py: one global board, one    *)
(* handler per spoken command (new game, six piece handlers, castle), the  *)
(* engine turn that follows every human move and the translation of the    *)
(* engine's reply into speech.                                             *)
(*                                                                         *)
(* Strings are sequences of one-character strings, so that the slices,     *)
(* lengths and substring tests of the handlers are computed as the code    *)
(* computes them.  The board oracle (the chess library behind `board`) is  *)
(* modelled by its rules: legal moves, push, san, parse_san, is_check,     *)
(* is_checkmate, is_game_over.                                             *)
(***************************************************************************)
EXTENDS Integers, Sequences, FiniteSets, TLC

VARIABLES board, prev, cmd, said, outcome, human, reply, cmds

vars == <<board, prev, cmd, said, outcome, human, reply, cmds>>

-----------------------------------------------------------------------------
(* Squares, pieces, geometry                                               *)

Squares == 0..63
\* no square (the value of ep_square when no pawn just advanced two ranks)
NoSquare == 8 * 8
Empty == "."
WhitePieces == {"P", "N", "B", "R", "Q", "K"}
BlackPieces == {"p", "n", "b", "r", "q", "k"}

Sq(f, r) == f + 8 * r
FileOf(s) == s % 8
RankOf(s) == s \div 8

Abs(x) == IF x < 0 THEN -x ELSE x
Sgn(x) == IF x < 0 THEN -1 ELSE IF x > 0 THEN 1 ELSE 0
Max(a, b) == IF a < b THEN b ELSE a

FILE_NAMES == <<"a", "b", "c", "d", "e", "f", "g", "h">>
RANK_NAMES == <<"1", "2", "3", "4", "5", "6", "7", "8">>

\* chess.SQUARE_NAMES[s], as a two-character string
SquareName(s) == <<FILE_NAMES[FileOf(s) + 1], RANK_NAMES[RankOf(s) + 1]>>

ColorOf(p) == IF p \in WhitePieces THEN "w" ELSE "b"
Other(c) == IF c = "w" THEN "b" ELSE "w"

\* piece type as the upper-case letter, whatever the colour
TypeOf(p) ==
    CASE p \in {"P", "p"} -> "P"
      [] p \in {"N", "n"} -> "N"
      [] p \in {"B", "b"} -> "B"
      [] p \in {"R", "r"} -> "R"
      [] p \in {"Q", "q"} -> "Q"
      [] p \in {"K", "k"} -> "K"
      [] OTHER -> Empty

PieceOf(t, c) ==
    IF c = "w" THEN t
    ELSE CASE t = "P" -> "p" [] t = "N" -> "n" [] t = "B" -> "b"
           [] t = "R" -> "r" [] t = "Q" -> "q" [] OTHER -> "k"

RookDirs == {<<1, 0>>, <<-1, 0>>, <<0, 1>>, <<0, -1>>}
BishopDirs == {<<1, 1>>, <<1, -1>>, <<-1, 1>>, <<-1, -1>>}

OnBoard(f, r) == f \in 0..7 /\ r \in 0..7

\* the squares met when leaving square s in direction d, nearest first
Ray(s, d) ==
    LET n == Cardinality({k \in 1..7 : OnBoard(FileOf(s) + k * d[1], RankOf(s) + k * d[2])})
    IN  [k \in 1..n |-> Sq(FileOf(s) + k * d[1], RankOf(s) + k * d[2])]

RAYS == [s \in Squares |-> [d \in RookDirs \cup BishopDirs |-> Ray(s, d)]]

KNIGHT_ATTACKS ==
    [s \in Squares |-> {t \in Squares :
        LET df == Abs(FileOf(t) - FileOf(s))
            dr == Abs(RankOf(t) - RankOf(s))
        IN  (df = 1 /\ dr = 2) \/ (df = 2 /\ dr = 1)}]

KING_ATTACKS ==
    [s \in Squares |-> {t \in Squares :
        /\ t # s
        /\ Abs(FileOf(t) - FileOf(s)) <= 1
        /\ Abs(RankOf(t) - RankOf(s)) <= 1}]

\* the squares a pawn of colour c on square s attacks
PAWN_ATTACKS ==
    [c \in {"w", "b"} |-> [s \in Squares |-> {t \in Squares :
        /\ Abs(FileOf(t) - FileOf(s)) = 1
        /\ RankOf(t) - RankOf(s) = (IF c = "w" THEN 1 ELSE -1)}]]

\* the squares of a ray up to and including the first occupied one
Visible(pc, ray) ==
    {ray[i] : i \in {i \in 1..Len(ray) : \A j \in 1..(i - 1) : pc[ray[j]] = Empty}}

Sliding(pc, a, dirs) == UNION {Visible(pc, RAYS[a][d]) : d \in dirs}

\* the squares the piece on square a attacks
AttacksFrom(pc, a) ==
    LET t == TypeOf(pc[a])
    IN  CASE t = "N" -> KNIGHT_ATTACKS[a]
          [] t = "K" -> KING_ATTACKS[a]
          [] t = "P" -> PAWN_ATTACKS[ColorOf(pc[a])][a]
          [] t = "R" -> Sliding(pc, a, RookDirs)
          [] t = "B" -> Sliding(pc, a, BishopDirs)
          [] t = "Q" -> Sliding(pc, a, RookDirs \cup BishopDirs)
          [] OTHER -> {}

\* the first occupied square of a ray holds one of the given pieces
FirstIs(pc, ray, ps) ==
    \E i \in 1..Len(ray) : pc[ray[i]] \in ps /\ \A j \in 1..(i - 1) : pc[ray[j]] = Empty

\* some piece of colour c attacks square s
IsAttackedBy(pc, c, s) ==
    \/ \E a \in KNIGHT_ATTACKS[s] : pc[a] = PieceOf("N", c)
    \/ \E a \in KING_ATTACKS[s] : pc[a] = PieceOf("K", c)
    \/ \E a \in PAWN_ATTACKS[Other(c)][s] : pc[a] = PieceOf("P", c)
    \/ \E d \in RookDirs : FirstIs(pc, RAYS[s][d], {PieceOf("R", c), PieceOf("Q", c)})
    \/ \E d \in BishopDirs : FirstIs(pc, RAYS[s][d], {PieceOf("B", c), PieceOf("Q", c)})

KingSquares(pc, c) == {s \in Squares : pc[s] = PieceOf("K", c)}

\* the king of colour c stands attacked (false when that king is off the board)
KingAttacked(pc, c) ==
    \E k \in KingSquares(pc, c) : IsAttackedBy(pc, Other(c), k)

-----------------------------------------------------------------------------
(* Board positions and moves                                               *)

Move(f, t, p) == [from |-> f, to |-> t, promotion |-> p]
NullMove == Move(0, 0, "")

StartPieces ==
    [s \in Squares |->
        CASE RankOf(s) = 0 -> <<"R", "N", "B", "Q", "K", "B", "N", "R">>[FileOf(s) + 1]
          [] RankOf(s) = 1 -> "P"
          [] RankOf(s) = 6 -> "p"
          [] RankOf(s) = 7 -> <<"r", "n", "b", "q", "k", "b", "n", "r">>[FileOf(s) + 1]
          [] OTHER -> Empty]

\* chess.Board(): the standard initial position, white to move, no history
StartBoard ==
    [pieces |-> StartPieces, turn |-> "w", castling_rights |-> {0, 7, 56, 63},
     ep_square |-> NoSquare, halfmove_clock |-> 0, fullmove_number |-> 1,
     move_stack |-> <<>>]

BackRank(c) == IF c = "w" THEN 0 ELSE 7

IsEnPassant(pos, m) ==
    /\ TypeOf(pos.pieces[m.from]) = "P"
    /\ m.to = pos.ep_square
    /\ FileOf(m.from) # FileOf(m.to)
    /\ pos.pieces[m.to] = Empty

IsCapture(pos, m) ==
    \/ (pos.pieces[m.to] # Empty /\ ColorOf(pos.pieces[m.to]) # pos.turn)
    \/ IsEnPassant(pos, m)

IsCastling(pos, m) ==
    /\ TypeOf(pos.pieces[m.from]) = "K"
    /\ Abs(FileOf(m.to) - FileOf(m.from)) = 2

\* the piece placement after a move: capture, en passant, castling rook, promotion
PiecesAfter(pos, m) ==
    LET pc == pos.pieces
        r  == RankOf(m.from)
        ep == IsEnPassant(pos, m)
        castle == IsCastling(pos, m)
        rookFrom == IF FileOf(m.to) = 6 THEN Sq(7, r) ELSE Sq(0, r)
        rookTo   == IF FileOf(m.to) = 6 THEN Sq(5, r) ELSE Sq(3, r)
        placed == IF m.promotion # "" THEN PieceOf(m.promotion, pos.turn) ELSE pc[m.from]
        moved == [pc EXCEPT ![m.from] = Empty, ![m.to] = placed]
    IN  IF ep THEN [moved EXCEPT ![Sq(FileOf(m.to), r)] = Empty]
        ELSE IF castle THEN [moved EXCEPT ![rookFrom] = Empty, ![rookTo] = pc[rookFrom]]
        ELSE moved

\* Board.push(move), for a null move too
push(pos, m) ==
    IF m = NullMove
    THEN [pos EXCEPT !.turn = Other(pos.turn), !.ep_square = NoSquare,
                     !.halfmove_clock = pos.halfmove_clock + 1,
                     !.fullmove_number = pos.fullmove_number + (IF pos.turn = "b" THEN 1 ELSE 0),
                     !.move_stack = Append(pos.move_stack, m)]
    ELSE
    LET p  == pos.pieces[m.from]
        r  == RankOf(m.from)
        zeroing == TypeOf(p) = "P" \/ IsCapture(pos, m)
        lost == {m.from, m.to} \cup
                (IF TypeOf(p) = "K" THEN {Sq(0, BackRank(pos.turn)), Sq(7, BackRank(pos.turn))}
                 ELSE {})
    IN  [pieces |-> PiecesAfter(pos, m),
         turn |-> Other(pos.turn),
         castling_rights |-> pos.castling_rights \ lost,
         ep_square |-> IF TypeOf(p) = "P" /\ Abs(RankOf(m.to) - r) = 2
                       THEN (m.from + m.to) \div 2 ELSE NoSquare,
         halfmove_clock |-> IF zeroing THEN 0 ELSE pos.halfmove_clock + 1,
         fullmove_number |-> pos.fullmove_number + (IF pos.turn = "b" THEN 1 ELSE 0),
         move_stack |-> Append(pos.move_stack, m)]

PromotionTypes == {"Q", "R", "B", "N"}

\* moves of the pawn on square a, legality of the own king apart
PawnMoves(pos, a) ==
    LET pc  == pos.pieces
        dir == IF pos.turn = "w" THEN 1 ELSE -1
        r   == RankOf(a)
        one == a + 8 * dir
        two == a + 16 * dir
        home == IF pos.turn = "w" THEN 1 ELSE 6
        last == IF pos.turn = "w" THEN 7 ELSE 0
        targets ==
            (IF r # last /\ pc[one] = Empty THEN {one} ELSE {})
            \cup (IF r = home /\ pc[one] = Empty /\ pc[two] = Empty THEN {two} ELSE {})
            \cup {b \in PAWN_ATTACKS[pos.turn][a] :
                    \/ (pc[b] # Empty /\ ColorOf(pc[b]) # pos.turn)
                    \/ (b = pos.ep_square /\ pc[b] = Empty)}
    IN  UNION {IF RankOf(b) = last
               THEN {Move(a, b, t) : t \in PromotionTypes}
               ELSE {Move(a, b, "")} : b \in targets}

PieceMoves(pos, a) ==
    {Move(a, b, "") : b \in {b \in AttacksFrom(pos.pieces, a) :
        pos.pieces[b] = Empty \/ ColorOf(pos.pieces[b]) # pos.turn}}

\* castling moves, encoded as the king's two-file step (e1g1, e1c1, e8g8, e8c8)
CastlingMoves(pos) ==
    LET pc == pos.pieces
        c  == pos.turn
        r  == BackRank(c)
        k  == Sq(4, r)
        free(sqs) == \A s \in sqs : pc[s] = Empty
        safe(sqs) == \A s \in sqs : ~IsAttackedBy(pc, Other(c), s)
    IN  IF pc[k] # PieceOf("K", c) THEN {}
        ELSE (IF /\ Sq(7, r) \in pos.castling_rights
                 /\ pc[Sq(7, r)] = PieceOf("R", c)
                 /\ free({Sq(5, r), Sq(6, r)})
                 /\ safe({k, Sq(5, r), Sq(6, r)})
              THEN {Move(k, Sq(6, r), "")} ELSE {})
             \cup
             (IF /\ Sq(0, r) \in pos.castling_rights
                 /\ pc[Sq(0, r)] = PieceOf("R", c)
                 /\ free({Sq(1, r), Sq(2, r), Sq(3, r)})
                 /\ safe({k, Sq(3, r), Sq(2, r)})
              THEN {Move(k, Sq(2, r), "")} ELSE {})

\* moves leaving the squares `froms` for the squares `tos`, own king apart
PseudoLegalMoves(pos, froms, tos) ==
    {m \in UNION {IF TypeOf(pos.pieces[a]) = "P" THEN PawnMoves(pos, a) ELSE PieceMoves(pos, a) :
                    a \in {s \in froms : pos.pieces[s] # Empty /\ ColorOf(pos.pieces[s]) = pos.turn}} :
        m.to \in tos}

\* Board.generate_legal_moves(from_mask, to_mask): the moves that do not leave
\* the own king attacked, and the castling moves
generate_legal_moves(pos, froms, tos) ==
    {m \in PseudoLegalMoves(pos, froms, tos) : ~KingAttacked(PiecesAfter(pos, m), pos.turn)}
    \cup {m \in CastlingMoves(pos) : m.from \in froms /\ m.to \in tos}

\* Board.legal_moves
legal_moves(pos) == generate_legal_moves(pos, Squares, Squares)

\* any(Board.legal_moves)
HasLegalMove(pos) ==
    \/ \E a \in Squares :
          \E m \in PseudoLegalMoves(pos, {a}, Squares) :
              ~KingAttacked(PiecesAfter(pos, m), pos.turn)
    \/ CastlingMoves(pos) # {}

is_check(pos) == KingAttacked(pos.pieces, pos.turn)
is_checkmate(pos) == is_check(pos) /\ ~HasLegalMove(pos)
is_stalemate(pos) == ~is_check(pos) /\ ~HasLegalMove(pos)

\* Board.is_insufficient_material(): no pawn, rook or queen, and at most one
\* minor piece, or bishops only and all on squares of one colour
is_insufficient_material(pos) ==
    LET pc == pos.pieces
        occupied == {s \in Squares : pc[s] # Empty}
        bishops == {s \in occupied : TypeOf(pc[s]) = "B"}
        dark(s) == (FileOf(s) + RankOf(s)) % 2 = 0
    IN  /\ \A s \in occupied : TypeOf(pc[s]) \notin {"P", "R", "Q"}
        /\ \/ Cardinality(occupied) <= 3
           \/ /\ \A s \in occupied : TypeOf(pc[s]) # "N"
              /\ ((\A s \in bishops : dark(s)) \/ (\A s \in bishops : ~dark(s)))

\* what two positions must share to count as a repetition
TranspositionKey(pos) ==
    <<pos.pieces, pos.turn, pos.castling_rights,
      IF /\ pos.ep_square # NoSquare
         /\ \E a \in PAWN_ATTACKS[Other(pos.turn)][pos.ep_square] :
                pos.pieces[a] = PieceOf("P", pos.turn)
      THEN pos.ep_square ELSE NoSquare>>

\* the positions the board went through: the initial one, then one per pushed move
RECURSIVE Positions(_)
Positions(stack) ==
    IF stack = <<>> THEN <<StartBoard>>
    ELSE LET before == Positions(SubSeq(stack, 1, Len(stack) - 1))
         IN  Append(before, push(before[Len(before)], stack[Len(stack)]))

Occurrences(ps, key) == Cardinality({i \in 1..Len(ps) : TranspositionKey(ps[i]) = key})

\* Board.is_fivefold_repetition(): the position occurred five times.  Five
\* occurrences take sixteen moves without a capture or pawn move.
is_fivefold_repetition(pos) ==
    /\ pos.halfmove_clock >= 16
    /\ Occurrences(Positions(pos.move_stack), TranspositionKey(pos)) >= 5

\* Board.is_game_over(): seventy-five moves, insufficient material, no legal
\* move (checkmate or stalemate), fivefold repetition
is_game_over(pos) ==
    \/ pos.halfmove_clock >= 150
    \/ is_insufficient_material(pos)
    \/ ~HasLegalMove(pos)
    \/ is_fivefold_repetition(pos)

-----------------------------------------------------------------------------
(* Strings: Python's slices and tests on sequences of characters           *)

Min(a, b) == IF a < b THEN a ELSE b

\* s[i:]
From(s, i) == SubSeq(s, i + 1, Len(s))
\* s[:n]
Upto(s, n) == SubSeq(s, 1, Min(n, Len(s)))
\* s[-k:]
Last(s, k) == SubSeq(s, Max(1, Len(s) - k + 1), Len(s))
\* s[:-k]
DropLast(s, k) == SubSeq(s, 1, Len(s) - k)
\* s[i:-k]
Mid(s, i, k) == SubSeq(s, i + 1, Len(s) - k)

\* sub in s
Contains(s, sub) ==
    \E i \in 1..(Len(s) - Len(sub) + 1) : SubSeq(s, i, i + Len(sub) - 1) = sub

UPPER == <<"A", "B", "C", "D", "E", "F", "G", "H", "I", "J", "K", "L", "M",
           "N", "O", "P", "Q", "R", "S", "T", "U", "V", "W", "X", "Y", "Z">>
LOWER == <<"a", "b", "c", "d", "e", "f", "g", "h", "i", "j", "k", "l", "m",
           "n", "o", "p", "q", "r", "s", "t", "u", "v", "w", "x", "y", "z">>

\* str.lower()
Lower(s) ==
    [i \in 1..Len(s) |->
        IF \E k \in 1..26 : UPPER[k] = s[i]
        THEN LOWER[CHOOSE k \in 1..26 : UPPER[k] = s[i]]
        ELSE s[i]]

\* str.upper() of one piece symbol
UpperChar(c) ==
    IF \E k \in 1..26 : LOWER[k] = c THEN UPPER[CHOOSE k \in 1..26 : LOWER[k] = c] ELSE c

IsFileChar(c) == \E i \in 1..8 : FILE_NAMES[i] = c
IsRankChar(c) == \E i \in 1..8 : RANK_NAMES[i] = c
FileIndex(c) == (CHOOSE i \in 1..8 : FILE_NAMES[i] = c) - 1
RankIndex(c) == (CHOOSE i \in 1..8 : RANK_NAMES[i] = c) - 1

IsSquareName(s) == Len(s) = 2 /\ IsFileChar(s[1]) /\ IsRankChar(s[2])
\* chess.SQUARE_NAMES.index(name)
SquareIndex(s) == Sq(FileIndex(s[1]), RankIndex(s[2]))

-----------------------------------------------------------------------------
(* Results of library calls: a value, or the exception raised              *)

Ok(v) == [ok |-> TRUE, val |-> v]
ValueError == [ok |-> FALSE, err |-> "ValueError"]
\* an exception that `except ValueError` does not catch
OtherError == [ok |-> FALSE, err |-> "Error"]

-----------------------------------------------------------------------------
(* Standard algebraic notation                                             *)

PIECE_LETTERS == {"N", "B", "K", "R", "Q"}
PROMOTION_CHARS == {"n", "b", "r", "q", "k", "N", "B", "R", "Q", "K"}

\* the origin file and/or rank that tells a move from the other legal moves
\* of the same kind of piece to the same square, whose origins are `others`
Disambiguator(others, from) ==
    IF others = {} THEN <<>>
    ELSE (IF (\E o \in others : RankOf(o) = RankOf(from))
             \/ ~(\E o \in others : FileOf(o) = FileOf(from))
          THEN <<SquareName(from)[1]>> ELSE <<>>)
         \o (IF \E o \in others : FileOf(o) = FileOf(from)
             THEN <<SquareName(from)[2]>> ELSE <<>>)

\* Board.san(move) before the check suffix; the origin square holds a piece
SanWithoutSuffix(pos, m) ==
    IF TypeOf(pos.pieces[m.from]) = "K" /\ IsCastling(pos, m)
    THEN IF FileOf(m.to) > FileOf(m.from) THEN <<"O", "-", "O">>
         ELSE <<"O", "-", "O", "-", "O">>
    ELSE IF TypeOf(pos.pieces[m.from]) = "P"
    THEN (IF IsCapture(pos, m) THEN <<SquareName(m.from)[1], "x">> ELSE <<>>)
         \o SquareName(m.to)
         \o (IF m.promotion # "" THEN <<"=", m.promotion>> ELSE <<>>)
    ELSE <<TypeOf(pos.pieces[m.from])>>
         \o Disambiguator(
              {o.from : o \in generate_legal_moves(pos,
                  {a \in Squares : a # m.from /\ pos.pieces[a] = pos.pieces[m.from]},
                  {m.to})},
              m.from)
         \o (IF IsCapture(pos, m) THEN <<"x">> ELSE <<>>)
         \o SquareName(m.to)

\* "+" or "#" for the position a move leaves
CheckSuffix(after) ==
    IF is_check(after)
    THEN (IF is_checkmate(after) THEN <<"#">> ELSE <<"+">>)
    ELSE <<>>

\* Board.san(move): "--" for a null move, an error when the origin square is
\* empty, else the notation with "+" or "#" looked ahead on the pushed move
san(pos, m) ==
    IF m = NullMove THEN Ok(<<"-", "-">>)
    ELSE IF pos.pieces[m.from] = Empty THEN OtherError
    ELSE Ok(SanWithoutSuffix(pos, m) \o CheckSuffix(push(pos, m)))

NoMatch == [match |-> FALSE]

\* ([NBKRQ])?([a-h])?([1-8])?[\-x]? against what precedes the target square
SanPrefix(pre, hasPiece, hasFile, hasRank, to, promo) ==
    IF From(pre, (IF hasPiece THEN 1 ELSE 0) + (IF hasFile THEN 1 ELSE 0)
                 + (IF hasRank THEN 1 ELSE 0))
       \in {<<>>, <<"-">>, <<"x">>}
    THEN [match |-> TRUE,
          piece |-> IF hasPiece THEN pre[1] ELSE "P",
          file |-> IF hasFile THEN FileIndex(pre[(IF hasPiece THEN 2 ELSE 1)]) ELSE 8,
          rank |-> IF hasRank
                   THEN RankIndex(pre[(IF hasPiece THEN 1 ELSE 0) + (IF hasFile THEN 1 ELSE 0) + 1])
                   ELSE 8,
          to |-> to,
          promotion |-> promo]
    ELSE NoMatch

SanFile(pre, hasPiece, hasFile, to, promo) ==
    SanPrefix(pre, hasPiece, hasFile,
              LET i == (IF hasPiece THEN 1 ELSE 0) + (IF hasFile THEN 1 ELSE 0) + 1
              IN  Len(pre) >= i /\ IsRankChar(pre[i]),
              to, promo)

SanPiece(pre, hasPiece, to, promo) ==
    SanFile(pre, hasPiece,
            LET i == (IF hasPiece THEN 2 ELSE 1) IN Len(pre) >= i /\ IsFileChar(pre[i]),
            to, promo)

\* ([a-h][1-8]) at the end of what the suffix and the promotion leave
SanTarget(s, promo) ==
    IF Len(s) >= 2 /\ IsSquareName(Last(s, 2))
    THEN SanPiece(DropLast(s, 2), Len(s) > 2 /\ s[1] \in PIECE_LETTERS,
                  SquareIndex(Last(s, 2)), promo)
    ELSE NoMatch

\* (=?[nbrqkNBRQK])? at the end of what the suffix leaves
SanPromotion(s) ==
    IF Len(s) > 0 /\ s[Len(s)] \in PROMOTION_CHARS
    THEN SanTarget(IF Len(s) > 1 /\ s[Len(s) - 1] = "=" THEN DropLast(s, 2) ELSE DropLast(s, 1),
                   UpperChar(s[Len(s)]))
    ELSE SanTarget(s, "")

\* SAN_REGEX: ([NBKRQ])?([a-h])?([1-8])?[\-x]?([a-h][1-8])(=?[nbrqkNBRQK])?[\+#]?
\* matched from the end: suffix, promotion, target square, then the prefix
SanMatch(s) ==
    SanPromotion(IF Len(s) > 0 /\ s[Len(s)] \in {"+", "#"} THEN DropLast(s, 1) ELSE s)

KingsideCastles == {<<"O", "-", "O">>, <<"O", "-", "O", "+">>, <<"O", "-", "O", "#">>}
QueensideCastles == {<<"O", "-", "O", "-", "O">>, <<"O", "-", "O", "-", "O", "+">>,
                     <<"O", "-", "O", "-", "O", "#">>}

\* the one move of a set, or ValueError (none, or more than one)
TheMove(found) ==
    IF Cardinality(found) = 1 THEN Ok(CHOOSE m \in found : TRUE) ELSE ValueError

\* the legal move that the groups g of a matched notation name
MatchedMove(pos, g) ==
    IF ~g.match THEN ValueError
    ELSE TheMove({m \in generate_legal_moves(pos,
                        {a \in Squares :
                            /\ pos.pieces[a] = PieceOf(g.piece, pos.turn)
                            /\ (g.file = 8 \/ FileOf(a) = g.file)
                            /\ (g.rank = 8 \/ RankOf(a) = g.rank)},
                        {g.to}) :
                    m.promotion = g.promotion /\ ~IsCastling(pos, m)})

\* the castling move to the given file, or ValueError
CastlingMove(pos, side) ==
    IF \E m \in CastlingMoves(pos) : FileOf(m.to) = side
    THEN Ok(Move(Sq(4, BackRank(pos.turn)), Sq(side, BackRank(pos.turn)), ""))
    ELSE ValueError

\* Board.parse_san(san): the one legal move the notation names, or ValueError
\* (no match, no such legal move, more than one)
parse_san(pos, s) ==
    IF s \in KingsideCastles THEN CastlingMove(pos, 6)
    ELSE IF s \in QueensideCastles THEN CastlingMove(pos, 2)
    ELSE MatchedMove(pos, SanMatch(s))

\* Board.push_san(san): the board with the move pushed, or ValueError
PushParsed(pos, r) == IF r.ok THEN Ok(push(pos, r.val)) ELSE r

push_san(pos, s) == PushParsed(pos, parse_san(pos, s))

PIECE_SYMBOLS == {"p", "n", "b", "r", "q", "k"}

\* chess.Move.from_uci(uci): four or five characters, two square names and an
\* optional promotion symbol; "0000" is the null move; else ValueError
from_uci(u) ==
    IF u = <<"0", "0", "0", "0">> THEN Ok(NullMove)
    ELSE IF /\ Len(u) \in {4, 5}
            /\ IsSquareName(SubSeq(u, 1, 2))
            /\ IsSquareName(SubSeq(u, 3, 4))
            /\ (Len(u) = 5 => u[5] \in PIECE_SYMBOLS)
    THEN Ok(Move(SquareIndex(SubSeq(u, 1, 2)), SquareIndex(SubSeq(u, 3, 4)),
                 IF Len(u) = 5 THEN UpperChar(u[5]) ELSE ""))
    ELSE ValueError

-----------------------------------------------------------------------------
(* Spoken text                                                             *)

STR_INVALID == <<"I", "n", "v", "a", "l", "i", "d", " ", "M", "o", "v", "e", ".", " ", "P", "l", "e", "a", "s", "e", " ", "T", "r", "y", " ", "A", "g", "a", "i", "n">>
STR_YOUR_MOVE == <<"Y", "o", "u", "r", " ", "M", "o", "v", "e">>
STR_CHECK == <<"C", "h", "e", "c", "k">>
STR_CHECKMATE == <<"C", "h", "e", "c", "k", "m", "a", "t", "e">>
STR_DRAW == <<"D", "r", "a", "w">>
STR_CASTLE_KING_SIDE == <<"c", "a", "s", "t", "l", "e", " ", "k", "i", "n", "g", " ", "s", "i", "d", "e">>
STR_CASTLE_QUEEN_SIDE == <<"c", "a", "s", "t", "l", "e", " ", "q", "u", "e", "e", "n", " ", "s", "i", "d", "e">>
STR_TO == <<" ", "t", "o", " ">>
STR_TAKES == <<" ", "t", "a", "k", "e", "s", " ">>
STR_PAWN_TAKES == <<"P", "a", "w", "n", " ", "t", "a", "k", "e", "s", " ">>
STR_GAP4 == <<" ", " ", " ", " ">>
STR_GAP11 == <<" ", " ", " ", " ", " ", " ", " ", " ", " ", " ", " ">>
STR_BLACK == <<"b", "l", "a", "c", "k">>
STR_BE == <<"b", "e">>

\* the piece names of the reply translation, by notation letter
PIECE_NAMES ==
    [N |-> <<"k", "n", "i", "g", "h", "t">>, B |-> <<"b", "i", "s", "h", "o", "p">>, Q |-> <<"q", "u", "e", "e", "n">>, K |-> <<"k", "i", "n", "g">>, R |-> <<"r", "o", "o", "k">>]

-----------------------------------------------------------------------------
(* The engine turn                                                         *)

NoMove == Move(NoSquare, NoSquare, "")

\* moves the engine is let to answer with, when legal (a bound on its choice)
EngineBook ==
    {<<"d", "8", "h", "4">>,
     <<"g", "8", "f", "6">>,
     <<"f", "6", "g", "8">>,
     <<"b", "8", "d", "7">>,
     <<"e", "8", "g", "8">>,
     <<"e", "8", "c", "8">>,
     <<"c", "5", "e", "3">>,
     <<"d", "7", "d", "5">>,
     <<"f", "2", "f", "3">>,
     <<"g", "2", "g", "4">>,
     <<"e", "4", "f", "3">>}

\* the legal moves the book holds
Booked(pos) ==
    {m \in generate_legal_moves(pos,
                {SquareIndex(SubSeq(b, 1, 2)) : b \in EngineBook},
                {SquareIndex(SubSeq(b, 3, 4)) : b \in EngineBook}) :
        SquareName(m.from) \o SquareName(m.to) \in EngineBook}

OneOf(booked, pos) ==
    IF booked # {} THEN booked ELSE {CHOOSE m \in legal_moves(pos) : TRUE}

\* engines.go(movetime=2000).bestmove: some legal move of the position handed
\* over, None (NoMove) when there is none
bestmove(pos) ==
    IF ~HasLegalMove(pos) THEN {NoMove} ELSE OneOf(Booked(pos), pos)

\* the base phrase of a reply, from its notation
BasePhrase(comp_move) ==
    LET n == Len(comp_move)
        first == Upto(comp_move, 1)
        named == first # <<>> /\ first[1] \in DOMAIN PIECE_NAMES
        name == PIECE_NAMES[first[1]]
    IN  IF comp_move = <<"O", "-", "O">> THEN STR_CASTLE_KING_SIDE
        ELSE IF comp_move = <<"O", "-", "O", "-", "O">> THEN STR_CASTLE_QUEEN_SIDE
        ELSE IF n = 2 THEN comp_move
        ELSE IF n = 3
        THEN (IF named THEN name \o STR_TO \o From(comp_move, 1) ELSE <<>>)
        ELSE IF n = 4
        THEN (IF Contains(comp_move, <<"x">>)
              THEN (IF named THEN name \o STR_TAKES \o Last(comp_move, 2)
                    ELSE first \o STR_GAP4 \o STR_PAWN_TAKES \o Last(comp_move, 2))
              ELSE (IF named
                    THEN Mid(comp_move, 1, 2) \o STR_GAP4 \o name \o STR_TO \o Last(comp_move, 2)
                    ELSE <<>>))
        ELSE IF n = 5
        THEN (IF named
              THEN Mid(comp_move, 1, 3) \o STR_GAP4 \o name \o STR_TAKES \o Last(comp_move, 2)
              ELSE <<>>)
        ELSE <<>>

\* a status translation that leaves "Check" out: what C6 tells from StatusPhrase
StatusPhraseWithoutCheck(pos, say) ==
    IF is_checkmate(pos) THEN STR_CHECKMATE
    ELSE IF is_game_over(pos) THEN STR_DRAW
    ELSE say \o STR_GAP11 \o STR_YOUR_MOVE

\* the status of the position after the reply, appended to or replacing the phrase
StatusPhrase(pos, say) ==
    LET checked == IF is_check(pos) THEN say \o STR_GAP11 \o STR_CHECK ELSE say
        yours == checked \o STR_GAP11 \o STR_YOUR_MOVE
    IN  IF is_checkmate(pos) THEN STR_CHECKMATE
        ELSE IF is_game_over(pos) THEN STR_DRAW
        ELSE yours

\* Board.parse_san on any notation the handlers or the engine turn hand over.
\* "--" (the notation of a null move) is rejected with ValueError by some
\* releases of the library and read as the null move by others.
ParseSan(pos, s) ==
    IF s = <<"-", "-">> THEN {ValueError, Ok(NullMove)} ELSE {parse_san(pos, s)}

\* lines 369-429 of engine(): the phrase for the notation comp_move of the
\* reply just pushed, `after` being the board it leaves
Spoken(after, comp_move, m) ==
    [board |-> after, ret |-> Ok(StatusPhrase(after, BasePhrase(comp_move))), reply |-> m]

\* board.push_san(comp_move) and what follows, r being what parse_san gives
Pushed(pos, comp_move, r) ==
    IF r.ok THEN Spoken(push(pos, r.val), comp_move, r.val)
    ELSE [board |-> pos, ret |-> r, reply |-> NoMove]

PushReply(pos, comp_move) == {Pushed(pos, comp_move, r) : r \in ParseSan(pos, comp_move)}

\* engine() for one answer of the engine: the board after the reply is pushed
\* and the phrase returned, or the ValueError that push_san raises
EngineTurn(pos, bm) ==
    PushReply(pos, san(pos, IF bm = NoMove THEN NullMove ELSE bm).val)

engine(pos) == UNION {EngineTurn(pos, bm) : bm \in bestmove(pos)}

-----------------------------------------------------------------------------
(* The command handlers                                                    *)

\* what one run of a handler leaves: the board, the phrases handed to say,
\* whether an exception left the handler, the human's move and the reply pushed
Result(b, sd, r, h, e) == [board |-> b, said |-> sd, raised |-> r, human |-> h, reply |-> e]

Invalid(pos) == Result(pos, <<STR_INVALID>>, FALSE, NoMove, NoMove)
Raised(pos) == Result(pos, <<>>, TRUE, NoMove, NoMove)

\* voice_command.lower(), then the "be" rewrite of every piece handler
BeRewrite(vc) ==
    IF Contains(vc, STR_BE)
    THEN DropLast(vc, 4) \o <<"b">> \o From(vc, Len(vc) - 1)
    ELSE vc

Normalize(voice_command) == BeRewrite(Lower(voice_command))

\* self.say(engine()) after the human's move m, inside the handler's try block;
\* `again` is the second say of the rook handler
AfterHuman(pos, m, again) ==
    {IF e.ret.ok
     THEN Result(e.board, <<e.ret.val>> \o (IF again THEN <<STR_YOUR_MOVE>> ELSE <<>>),
                 FALSE, m, e.reply)
     ELSE Result(e.board, <<STR_INVALID>>, FALSE, m, NoMove) : e \in engine(pos)}

HumanPushed(pos, r, again) ==
    IF r.ok THEN AfterHuman(push(pos, r.val), r.val, again) ELSE {Invalid(pos)}

\* board.push_san(s); self.say(engine()) under `except ValueError`
PushThenEngine(pos, s, again) ==
    UNION {HumanPushed(pos, r, again) : r \in ParseSan(pos, s)}

\* a new game that keeps the board in play: what C7 tells from NewGameRun
NewGameRunOnBoardInPlay(pos, voice_command) ==
    IF Contains(voice_command, STR_BLACK)
    THEN {IF e.ret.ok THEN Result(e.board, <<e.ret.val>>, FALSE, NoMove, e.reply)
          ELSE Result(e.board, <<>>, TRUE, NoMove, NoMove) : e \in engine(pos)}
    ELSE {Result(pos, <<STR_YOUR_MOVE>>, FALSE, NoMove, NoMove)}

NewGameRun(pos, voice_command) ==
    IF Contains(voice_command, STR_BLACK)
    THEN {IF e.ret.ok THEN Result(e.board, <<e.ret.val>>, FALSE, NoMove, e.reply)
          ELSE Result(e.board, <<>>, TRUE, NoMove, NoMove) : e \in engine(StartBoard)}
    ELSE {Result(StartBoard, <<STR_YOUR_MOVE>>, FALSE, NoMove, NoMove)}

\* board.push_san(board.san(move)), sn being what board.san gives
PushSanOf(pos, sn) ==
    IF ~sn.ok THEN {Raised(pos)} ELSE PushThenEngine(pos, sn.val, FALSE)

\* the takes branch of the pawn handler, uci being what Move.from_uci gives
PawnTakes(pos, uci) ==
    IF ~uci.ok THEN {Invalid(pos)} ELSE PushSanOf(pos, san(pos, uci.val))

\* a pawn handler that looks for the word "takes" in the phrase: what C11
\* tells from PawnRun
PawnRunByWord(pos, vc, takes) ==
    IF Contains(vc, <<"t", "a", "k", "e", "s">>)
    THEN PawnTakes(pos, from_uci(Upto(vc, 2) \o From(vc, 14)))
    ELSE PushThenEngine(pos, From(vc, 8), FALSE)

PawnRun(pos, vc, takes) ==
    IF takes THEN PawnTakes(pos, from_uci(Upto(vc, 2) \o From(vc, 14)))
    ELSE PushThenEngine(pos, From(vc, 8), FALSE)

PawnMoveRun(pos, voice_command, takes) == PawnRun(pos, Normalize(voice_command), takes)

\* the run method the knight, bishop, rook, queen and king handlers share: the
\* piece letter, the offsets of the square after "takes" and after "to", and
\* whether "Your Move" is said once more.  A command longer than twelve
\* characters reads the undefined name voice_commnad: NameError leaves the handler.
PieceRun(letter, takesAt, toAt, again, pos, vc, takes) ==
    IF Len(vc) > 12 THEN {Raised(pos)}
    ELSE PushThenEngine(pos,
             IF takes THEN <<letter, "x">> \o From(vc, takesAt)
             ELSE <<letter>> \o From(vc, toAt),
             again)

PieceMoveRun(letter, takesAt, toAt, again, pos, voice_command, takes) ==
    PieceRun(letter, takesAt, toAt, again, pos, Normalize(voice_command), takes)

KnightMoveRun(pos, voice_command, takes) ==
    PieceMoveRun("N", 13, 10, FALSE, pos, voice_command, takes)

BishopMoveRun(pos, voice_command, takes) ==
    PieceMoveRun("B", 13, 10, FALSE, pos, voice_command, takes)

RookMoveRun(pos, voice_command, takes) ==
    PieceMoveRun("R", 11, 8, TRUE, pos, voice_command, takes)

QueenMoveRun(pos, voice_command, takes) ==
    PieceMoveRun("Q", 12, 9, FALSE, pos, voice_command, takes)

KingMoveRun(pos, voice_command, takes) ==
    PieceMoveRun("K", 11, 8, FALSE, pos, voice_command, takes)

\* a castle handler with the two sides exchanged: what C9 tells from CastleRun
CastleRunSidesExchanged(pos, voice_command, kingside) ==
    PushThenEngine(pos, IF kingside THEN <<"O", "-", "O", "-", "O">> ELSE <<"O", "-", "O">>,
                   FALSE)

CastleRun(pos, voice_command, kingside) ==
    PushThenEngine(pos, IF kingside THEN <<"O", "-", "O">> ELSE <<"O", "-", "O", "-", "O">>,
                   FALSE)

-----------------------------------------------------------------------------
(* The commands registered by make_actor                                   *)

KEYWORDS ==
    [NewGame |->
    {[keyword |-> <<"n", "e", "w", " ", "g", "a", "m", "e">>, flag |-> FALSE]},
     PawnMove |->
    {[keyword |-> <<"p", "a", "w", "n", " ", "t", "o">>, flag |-> FALSE],
     [keyword |-> <<"p", "a", "w", "n", " ", "t", "a", "k", "e", "s">>, flag |-> TRUE],
     [keyword |-> <<"p", "a", "w", "n", " ", "c", "a", "k", "e", "s">>, flag |-> TRUE]},
     KnightMove |->
    {[keyword |-> <<"k", "n", "i", "g", "h", "t", " ", "t", "o">>, flag |-> FALSE],
     [keyword |-> <<"k", "n", "i", "g", "h", "t", " ", "t", "a", "k", "e", "s">>, flag |-> TRUE],
     [keyword |-> <<"k", "n", "i", "g", "h", "t", " ", "c", "a", "k", "e", "s">>, flag |-> TRUE]},
     BishopMove |->
    {[keyword |-> <<"b", "i", "s", "h", "o", "p", " ", "t", "o">>, flag |-> FALSE],
     [keyword |-> <<"b", "i", "s", "h", "o", "p", " ", "t", "a", "k", "e", "s">>, flag |-> TRUE],
     [keyword |-> <<"b", "i", "s", "h", "o", "p", " ", "c", "a", "k", "e", "s">>, flag |-> TRUE]},
     QueenMove |->
    {[keyword |-> <<"q", "u", "e", "e", "n", " ", "t", "o">>, flag |-> FALSE],
     [keyword |-> <<"q", "u", "e", "e", "n", " ", "t", "a", "k", "e", "s">>, flag |-> TRUE],
     [keyword |-> <<"q", "u", "e", "e", "n", " ", "c", "a", "k", "e", "s">>, flag |-> TRUE]},
     KingMove |->
    {[keyword |-> <<"k", "i", "n", "g", " ", "t", "o">>, flag |-> FALSE],
     [keyword |-> <<"k", "i", "n", "g", " ", "t", "a", "k", "e", "s">>, flag |-> TRUE],
     [keyword |-> <<"k", "i", "n", "g", " ", "c", "a", "k", "e", "s">>, flag |-> TRUE]},
     RookMove |->
    {[keyword |-> <<"r", "o", "o", "k", " ", "t", "o">>, flag |-> FALSE],
     [keyword |-> <<"r", "o", "o", "k", " ", "t", "a", "k", "e", "s">>, flag |-> TRUE],
     [keyword |-> <<"r", "o", "o", "k", " ", "c", "a", "k", "e", "s">>, flag |-> TRUE]},
     Castle |->
    {[keyword |-> <<"k", "i", "n", "g", " ", "c", "a", "s", "t", "l", "e">>, flag |-> TRUE],
     [keyword |-> <<"q", "u", "e", "e", "n", " ", "c", "a", "s", "t", "l", "e">>, flag |-> FALSE],
     [keyword |-> <<"c", "a", "s", "t", "l", "e", " ", "k", "i", "n", "g">>, flag |-> TRUE],
     [keyword |-> <<"c", "a", "s", "t", "l", "e", " ", "q", "u", "e", "e", "n">>, flag |-> FALSE]}]

\* the dispatcher hands an utterance to a handler whose keyword it contains
Routed(u, keyword) == Contains(Lower(u), keyword)

-----------------------------------------------------------------------------
(* Bounds: utterances heard, commands per session, sessions in progress    *)

MaxCmds == 2

Utterances ==
    {<<"n", "e", "w", " ", "g", "a", "m", "e">>,
     <<"n", "e", "w", " ", "g", "a", "m", "e", " ", "b", "l", "a", "c", "k">>,
     <<"p", "a", "w", "n", " ", "t", "o", " ", "e", "4">>,
     <<"p", "a", "w", "n", " ", "t", "o", " ", "f", "3">>,
     <<"p", "a", "w", "n", " ", "t", "o", " ", "g", "4">>,
     <<"p", "a", "w", "n", " ", "t", "o", " ", "e", "5">>,
     <<"p", "a", "w", "n", " ", "t", "o", " ", "d", "3">>,
     <<"p", "a", "w", "n", " ", "t", "o">>,
     <<"e", "2", " ", "p", "a", "w", "n", " ", "t", "a", "k", "e", "s", " ", "e", "4">>,
     <<"g", "1", " ", "p", "a", "w", "n", " ", "t", "a", "k", "e", "s", " ", "f", "3">>,
     <<"e", "4", " ", "p", "a", "w", "n", " ", "t", "a", "k", "e", "s", " ", "d", "5">>,
     <<"e", "2", " ", "p", "a", "w", "n", " ", "t", "a", "k", "e", "s", " ", "d", "3">>,
     <<"p", "a", "w", "n", " ", "t", "a", "k", "e", "s", " ", "d", "5">>,
     <<"f", "3", " ", "p", "a", "w", "n", " ", "c", "a", "k", "e", "s", " ", "e", "5">>,
     <<"e", "4", " ", "p", "a", "w", "n", " ", "c", "a", "k", "e", "s", " ", "d", "5">>,
     <<"k", "n", "i", "g", "h", "t", " ", "c", "a", "k", "e", "s", " ", "e", "5">>,
     <<"k", "n", "i", "g", "h", "t", " ", "t", "o", " ", "f", "3">>,
     <<"g", "1", " ", "k", "n", "i", "g", "h", "t", " ", "t", "o", " ", "f", "3">>,
     <<"K", "n", "i", "g", "h", "t", " ", "t", "o", " ", "g", "1">>,
     <<"k", "n", "i", "g", "h", "t", " ", "t", "o", " ", "f", "7">>,
     <<"k", "n", "i", "g", "h", "t", " ", "t", "o", " ", "d", "2">>,
     <<"k", "n", "i", "g", "h", "t", " ", "t", "a", "k", "e", "s", " ", "e", "5">>,
     <<"b", "i", "s", "h", "o", "p", " ", "t", "o", " ", "b", "e", " ", "5">>,
     <<"b", "i", "s", "h", "o", "p", " ", "t", "a", "k", "e", "s", " ", "f", "7">>,
     <<"r", "o", "o", "k", " ", "t", "o", " ", "a", "3">>,
     <<"r", "o", "o", "k", " ", "t", "a", "k", "e", "s", " ", "a", "5">>,
     <<"q", "u", "e", "e", "n", " ", "t", "o", " ", "h", "4">>,
     <<"q", "u", "e", "e", "n", " ", "t", "o", " ", "d", "2">>,
     <<"q", "u", "e", "e", "n", " ", "t", "a", "k", "e", "s", " ", "f", "7">>,
     <<"k", "i", "n", "g", " ", "t", "o", " ", "d", "2">>,
     <<"k", "i", "n", "g", " ", "t", "a", "k", "e", "s", " ", "e", "2">>,
     <<"k", "i", "n", "g", " ", "c", "a", "s", "t", "l", "e">>,
     <<"q", "u", "e", "e", "n", " ", "c", "a", "s", "t", "l", "e">>,
     <<"c", "a", "s", "t", "l", "e", " ", "k", "i", "n", "g", " ", "s", "i", "d", "e">>,
     <<"c", "a", "s", "t", "l", "e", " ", "q", "u", "e", "e", "n">>}

LINE_KNIGHT_DANCE ==
    <<<<"g", "1", "f", "3">>,
      <<"g", "8", "f", "6">>,
      <<"f", "3", "g", "1">>,
      <<"f", "6", "g", "8">>,
      <<"g", "1", "f", "3">>,
      <<"g", "8", "f", "6">>,
      <<"f", "3", "g", "1">>,
      <<"f", "6", "g", "8">>,
      <<"g", "1", "f", "3">>,
      <<"g", "8", "f", "6">>,
      <<"f", "3", "g", "1">>,
      <<"f", "6", "g", "8">>,
      <<"g", "1", "f", "3">>,
      <<"g", "8", "f", "6">>>>

LINE_ROOK_LIFT ==
    <<<<"a", "2", "a", "4">>,
      <<"e", "7", "e", "5">>,
      <<"f", "2", "f", "3">>,
      <<"d", "7", "d", "6">>,
      <<"g", "2", "g", "4">>,
      <<"a", "7", "a", "5">>>>

LINE_BLACK_TO_MATE ==
    <<<<"f", "2", "f", "3">>,
      <<"e", "7", "e", "5">>,
      <<"g", "2", "g", "4">>>>

LINE_DEVELOPED ==
    <<<<"e", "2", "e", "4">>,
      <<"e", "7", "e", "5">>,
      <<"g", "1", "f", "3">>,
      <<"g", "8", "f", "6">>,
      <<"f", "1", "c", "4">>,
      <<"f", "8", "c", "5">>,
      <<"d", "2", "d", "3">>,
      <<"d", "7", "d", "6">>,
      <<"b", "1", "c", "3">>,
      <<"b", "8", "c", "6">>,
      <<"c", "1", "e", "3">>,
      <<"c", "8", "e", "6">>,
      <<"d", "1", "e", "2">>,
      <<"d", "8", "e", "7">>>>

LINE_TWO_KNIGHTS ==
    <<<<"g", "1", "f", "3">>,
      <<"g", "8", "f", "6">>,
      <<"d", "2", "d", "3">>,
      <<"d", "7", "d", "6">>>>

LINE_PAWN_CHECK ==
    <<<<"e", "2", "e", "4">>,
      <<"d", "7", "d", "5">>,
      <<"f", "2", "f", "3">>,
      <<"d", "5", "e", "4">>,
      <<"e", "1", "e", "2">>,
      <<"h", "7", "h", "6">>>>

\* the lines of earlier play a session is picked up after; the empty line is
\* the session right after construction
Openings == {<<>>, LINE_KNIGHT_DANCE, LINE_ROOK_LIFT, LINE_BLACK_TO_MATE, LINE_DEVELOPED, LINE_TWO_KNIGHTS,
     LINE_PAWN_CHECK}

\* the board after the moves of a line are pushed one by one, each a legal move
RECURSIVE PlayLine(_)
PlayLine(line) ==
    IF line = <<>> THEN StartBoard
    ELSE LET pos == PlayLine(SubSeq(line, 1, Len(line) - 1))
             u == line[Len(line)]
         IN  push(pos, CHOOSE m \in legal_moves(pos) :
                          SquareName(m.from) \o SquareName(m.to) = u)

-----------------------------------------------------------------------------
(* The session                                                             *)

NoCmd == [handler |-> "none", flag |-> FALSE, text |-> <<>>]

Init ==
    /\ board \in {PlayLine(line) : line \in Openings}
    /\ prev = board
    /\ cmd = NoCmd
    /\ said = <<>>
    /\ outcome = "idle"
    /\ human = NoMove
    /\ reply = NoMove
    /\ cmds = 0

\* one run of a handler on utterance u, leaving result o
Handle(handler, flag, u, o) ==
    /\ prev' = board
    /\ cmd' = [handler |-> handler, flag |-> flag, text |-> u]
    /\ board' = o.board
    /\ said' = o.said
    /\ outcome' = IF o.raised THEN "raised" ELSE "returned"
    /\ human' = o.human
    /\ reply' = o.reply
    /\ cmds' = cmds + 1

Listening == outcome = "idle" /\ cmds < MaxCmds

NewGame ==
    /\ Listening
    /\ \E k \in KEYWORDS.NewGame, u \in Utterances :
        /\ Routed(u, k.keyword)
        /\ \E o \in NewGameRun(board, u) : Handle("NewGame", k.flag, u, o)

PawnMove ==
    /\ Listening
    /\ \E k \in KEYWORDS.PawnMove, u \in Utterances :
        /\ Routed(u, k.keyword)
        /\ \E o \in PawnMoveRun(board, u, k.flag) : Handle("PawnMove", k.flag, u, o)

KnightMove ==
    /\ Listening
    /\ \E k \in KEYWORDS.KnightMove, u \in Utterances :
        /\ Routed(u, k.keyword)
        /\ \E o \in KnightMoveRun(board, u, k.flag) : Handle("KnightMove", k.flag, u, o)

BishopMove ==
    /\ Listening
    /\ \E k \in KEYWORDS.BishopMove, u \in Utterances :
        /\ Routed(u, k.keyword)
        /\ \E o \in BishopMoveRun(board, u, k.flag) : Handle("BishopMove", k.flag, u, o)

RookMove ==
    /\ Listening
    /\ \E k \in KEYWORDS.RookMove, u \in Utterances :
        /\ Routed(u, k.keyword)
        /\ \E o \in RookMoveRun(board, u, k.flag) : Handle("RookMove", k.flag, u, o)

QueenMove ==
    /\ Listening
    /\ \E k \in KEYWORDS.QueenMove, u \in Utterances :
        /\ Routed(u, k.keyword)
        /\ \E o \in QueenMoveRun(board, u, k.flag) : Handle("QueenMove", k.flag, u, o)

KingMove ==
    /\ Listening
    /\ \E k \in KEYWORDS.KingMove, u \in Utterances :
        /\ Routed(u, k.keyword)
        /\ \E o \in KingMoveRun(board, u, k.flag) : Handle("KingMove", k.flag, u, o)

Castle ==
    /\ Listening
    /\ \E k \in KEYWORDS.Castle, u \in Utterances :
        /\ Routed(u, k.keyword)
        /\ \E o \in CastleRun(board, u, k.flag) : Handle("Castle", k.flag, u, o)

\* the command is over: the session waits for the next utterance
Await ==
    /\ outcome # "idle"
    /\ outcome' = "idle"
    /\ prev' = board
    /\ cmd' = NoCmd
    /\ said' = <<>>
    /\ human' = NoMove
    /\ reply' = NoMove
    /\ UNCHANGED <<board, cmds>>

Next ==
    \/ NewGame
    \/ PawnMove
    \/ KnightMove
    \/ BishopMove
    \/ RookMove
    \/ QueenMove
    \/ KingMove
    \/ Castle
    \/ Await

Spec == Init /\ [][Next]_vars

-----------------------------------------------------------------------------
(* What a command denotes: the phrase read by the templates                *)
(* "<piece> to <square>" and "<piece> takes <square>" ("cakes" for         *)
(* "takes"), an origin square in front when the phrase carries one, and    *)
(* resolved among the legal moves of the piece type and capture class.     *)

PieceHandlers == {"PawnMove", "KnightMove", "BishopMove", "RookMove", "QueenMove", "KingMove"}
MoveHandlers == PieceHandlers \cup {"Castle"}

HANDLER_PIECE ==
    [PawnMove |-> "P", KnightMove |-> "N", BishopMove |-> "B", RookMove |-> "R",
     QueenMove |-> "Q", KingMove |-> "K"]

PIECE_WORDS ==
    [P |-> <<"p", "a", "w", "n">>, N |-> PIECE_NAMES.N, B |-> PIECE_NAMES.B,
     R |-> PIECE_NAMES.R, Q |-> PIECE_NAMES.Q, K |-> PIECE_NAMES.K]

STR_CAKES == <<" ", "c", "a", "k", "e", "s", " ">>

Links(takes) == IF takes THEN {STR_TAKES, STR_CAKES} ELSE {STR_TO}

\* the phrase of a piece word and a link, with or without an origin square
Heads(word, takes, o) ==
    {(IF o = NoSquare THEN <<>> ELSE SquareName(o) \o <<" ">>) \o word \o l : l \in Links(takes)}

\* the readings of a lower-cased phrase n: destination and origin (NoSquare when
\* the phrase names none); no reading when the phrase is out of template
Readings(word, takes, n) ==
    IF ~IsSquareName(Last(n, 2)) THEN {}
    ELSE {[from |-> o, to |-> SquareIndex(Last(n, 2))] :
            o \in {a \in Squares \cup {NoSquare} : DropLast(n, 2) \in Heads(word, takes, a)}}

\* the legal moves a piece command denotes on a position
DenotedBy(pos, letter, takes, rs) ==
    {m \in legal_moves(pos) :
        /\ TypeOf(pos.pieces[m.from]) = letter
        /\ ~IsCastling(pos, m)
        /\ IsCapture(pos, m) = takes
        /\ \E r \in rs : r.to = m.to /\ r.from \in {NoSquare, m.from}}

\* the legal moves command c denotes on a position: for a castle command the
\* castling move of its side
Denoted(pos, c) ==
    IF c.handler = "Castle"
    THEN {m \in legal_moves(pos) : IsCastling(pos, m) /\ ((FileOf(m.to) = 6) <=> c.flag)}
    ELSE DenotedBy(pos, HANDLER_PIECE[c.handler], c.flag,
                   Readings(PIECE_WORDS[HANDLER_PIECE[c.handler]], c.flag, Normalize(c.text)))

\* a handler has just run (the state it leaves, before the next utterance)
Done == outcome # "idle"

-----------------------------------------------------------------------------
(* Claims                                                                  *)

\* C1: after a move command (piece handlers, with or without the capture
\* flag, and castle commands) whose phrase is malformed or denotes no legal
\* move or more than one, the board is the board before the command and no
\* engine move was applied.
C1_NoMutationOnFailure ==
    (Done /\ cmd.handler \in MoveHandlers /\ Cardinality(Denoted(prev, cmd)) # 1)
        => (board = prev /\ reply = NoMove)

\* C2: a piece handler run on a phrase that is malformed, out of template,
\* illegal or ambiguous says "Invalid Move. Please Try Again" and returns
\* normally: no failure leaves the handler.
C2_FailuresCaught ==
    (Done /\ cmd.handler \in PieceHandlers /\ Cardinality(Denoted(prev, cmd)) # 1)
        => (outcome = "returned" /\ said = <<STR_INVALID>>)

\* C3: when the phrase of a piece command ("to" or "takes") denotes exactly
\* one legal move, the human move the handler pushes onto the board is that
\* move, as if the equivalent algebraic move were applied directly.
C3_PhraseAppliesDenotedMove ==
    (Done /\ cmd.handler \in PieceHandlers /\ Cardinality(Denoted(prev, cmd)) = 1)
        => /\ human \in Denoted(prev, cmd)
           /\ Len(board.move_stack) > Len(prev.move_stack)
           /\ SubSeq(board.move_stack, 1, Len(prev.move_stack) + 1)
                = push(prev, human).move_stack

\* C4: a move command applies no move at all, or the human's move and then
\* exactly one engine reply, a legal move of the position after the human's
\* move; it never leaves the human's move without a reply, so the side to
\* move at the end of a command of a game not over is the side that moved.
C4_HumanMoveThenOneReply ==
    (Done /\ cmd.handler \in MoveHandlers)
        => \/ board = prev
           \/ /\ human # NoMove
              /\ reply \in legal_moves(push(prev, human))
              /\ board = push(push(prev, human), reply)
              /\ (~is_game_over(board) => board.turn = prev.turn)

\* C5: when a command succeeds and the position after the engine's reply is
\* checkmate, all that is said for the command is "Checkmate"; when the game
\* is over otherwise, all that is said is "Draw".
C5_TerminalPhraseAlone ==
    (Done /\ outcome = "returned" /\ reply # NoMove)
        => /\ (is_checkmate(board) => said = <<STR_CHECKMATE>>)
           /\ (~is_checkmate(board) /\ is_game_over(board) => said = <<STR_DRAW>>)

\* the position the engine replied to, and the notation of its reply
Replied == Done /\ outcome = "returned" /\ reply # NoMove
Before == IF cmd.handler = "NewGame" THEN StartBoard ELSE push(prev, human)
ReplyNotation == san(Before, reply).val

\* C6: after an engine reply that leaves the game not over, the phrase spoken
\* for it is the base phrase, then "Check" when the position is check, then
\* "Your Move"; without check the phrase holds no "Check".
C6_CheckThenYourMove ==
    (Replied /\ ~is_game_over(board))
        => /\ Len(said) >= 1
           /\ said[1] = BasePhrase(ReplyNotation)
                          \o (IF is_check(board) THEN STR_GAP11 \o STR_CHECK ELSE <<>>)
                          \o STR_GAP11 \o STR_YOUR_MOVE
           /\ (~is_check(board) => ~Contains(said[1], STR_CHECK))

\* a reply that gives check without ending the game has been spoken
C6_Witness == Replied /\ ~is_game_over(board) /\ is_check(board)

\* C7: "new game", whatever the session state, leaves the standard initial
\* position, white to move, no history; with "black" in the command exactly
\* one engine move is then applied and its phrase spoken, otherwise no move
\* is applied and "Your Move" is spoken.
C7_NewGameResets ==
    (Done /\ cmd.handler = "NewGame")
        => /\ outcome = "returned"
           /\ IF Contains(cmd.text, STR_BLACK)
              THEN /\ reply \in legal_moves(StartBoard)
                   /\ board = push(StartBoard, reply)
                   /\ board.move_stack = <<reply>>
                   /\ said = <<StatusPhrase(board, BasePhrase(ReplyNotation))>>
              ELSE /\ board.pieces = StartPieces
                   /\ board.turn = "w"
                   /\ board.move_stack = <<>>
                   /\ board = StartBoard
                   /\ reply = NoMove
                   /\ said = <<STR_YOUR_MOVE>>

\* a new game as the second side was started on a board that was checkmate
C7_Witness ==
    Done /\ cmd.handler = "NewGame" /\ is_checkmate(prev) /\ reply # NoMove

\* C8: once the board is checkmate or the game is over otherwise, a piece or
\* castle command leaves the board as it is.
C8_TerminalBoardStays ==
    (Done /\ cmd.handler \in MoveHandlers /\ is_game_over(prev)) => board = prev

STR_KING_CASTLE == <<"k", "i", "n", "g", " ", "c", "a", "s", "t", "l", "e">>
STR_CASTLE_KING == <<"c", "a", "s", "t", "l", "e", " ", "k", "i", "n", "g">>
STR_QUEEN_CASTLE == <<"q", "u", "e", "e", "n", " ", "c", "a", "s", "t", "l", "e">>
STR_CASTLE_QUEEN == <<"c", "a", "s", "t", "l", "e", " ", "q", "u", "e", "e", "n">>

\* the file the king castles to by what the utterance says
SaidCastleFiles(u) ==
    (IF Contains(Lower(u), STR_KING_CASTLE) \/ Contains(Lower(u), STR_CASTLE_KING)
     THEN {6} ELSE {})
    \cup (IF Contains(Lower(u), STR_QUEEN_CASTLE) \/ Contains(Lower(u), STR_CASTLE_QUEEN)
          THEN {2} ELSE {})

\* C9: "king castle" and "castle king" apply O-O, "queen castle" and "castle
\* queen" apply O-O-O, when that castling move is legal and whatever else
\* the utterance holds; what is said is the phrase of the engine's reply
\* alone, not the human's castling move.
C9_CastleAppliesFixedMove ==
    (Done /\ cmd.handler = "Castle")
        => \A side \in SaidCastleFiles(cmd.text) :
              (\E m \in generate_legal_moves(prev, {Sq(4, BackRank(prev.turn))}, Squares) :
                    IsCastling(prev, m) /\ FileOf(m.to) = side)
                 => /\ human = Move(Sq(4, BackRank(prev.turn)), Sq(side, BackRank(prev.turn)), "")
                    /\ Len(board.move_stack) > Len(prev.move_stack)
                    /\ board.move_stack[Len(prev.move_stack) + 1] = human
                    /\ outcome = "returned"
                    /\ (reply # NoMove
                          => said = <<StatusPhrase(board, BasePhrase(ReplyNotation))>>)

\* a queenside castle was applied by command and the engine's reply spoken
C9_Witness ==
    /\ Replied
    /\ cmd.handler = "Castle"
    /\ human = Move(Sq(4, BackRank(prev.turn)), Sq(2, BackRank(prev.turn)), "")
    /\ IsCastling(prev, human)

\* the handler of a piece letter, run on a phrase
HandlerRun(letter, pos, phrase, takes) ==
    CASE letter = "N" -> KnightMoveRun(pos, phrase, takes)
      [] letter = "B" -> BishopMoveRun(pos, phrase, takes)
      [] letter = "R" -> RookMoveRun(pos, phrase, takes)
      [] letter = "Q" -> QueenMoveRun(pos, phrase, takes)
      [] OTHER -> KingMoveRun(pos, phrase, takes)

\* a phrase is "<piece> to <square>" (takes false) or "<piece> takes <square>"
FitsTemplate(letter, takes, phrase) ==
    /\ IsSquareName(Last(phrase, 2))
    /\ phrase = PIECE_NAMES[letter] \o (IF takes THEN STR_TAKES ELSE STR_TO) \o Last(phrase, 2)

\* C10: when the phrase spoken for an engine reply fits "<piece> to <square>"
\* or "<piece> takes <square>", the square it names is the destination of
\* the reply, and the handler of that piece, given the phrase on the position
\* the engine replied to, parses it to a move with the same destination.
C10_RoundTrip ==
    (Replied /\ reply # NullMove)
        => \A letter \in DOMAIN PIECE_NAMES, takes \in BOOLEAN :
              FitsTemplate(letter, takes, BasePhrase(ReplyNotation))
                 => /\ SquareIndex(Last(BasePhrase(ReplyNotation), 2)) = reply.to
                    /\ \A o \in HandlerRun(letter, Before, BasePhrase(ReplyNotation), takes) :
                          o.human # NoMove /\ o.human.to = reply.to

\* the run of a piece handler, by the handler's name
PieceCommandRun(handler, pos, phrase, takes) ==
    IF handler = "PawnMove" THEN PawnMoveRun(pos, phrase, takes)
    ELSE HandlerRun(HANDLER_PIECE[handler], pos, phrase, takes)

\* what the command just run left, as a handler result
Outcome == Result(board, said, outcome = "raised", human, reply)

STR_CAKES_WORD == <<"c", "a", "k", "e", "s">>

\* where a lower-cased utterance holds "cakes", and the utterance with "takes"
\* in those places
CakesIn(low) == {i \in 1..(Len(low) - 4) : SubSeq(low, i, i + 4) = STR_CAKES_WORD}
CakesAt(u) == CakesIn(Lower(u))
TakesIn(u, at) == [i \in 1..Len(u) |-> IF i \in at THEN "t" ELSE u[i]]
WithTakes(u) == TakesIn(u, CakesAt(u))

\* the results of the handler on utterance u, for every keyword routing u to it
RoutedRuns(handler, pos, u) ==
    UNION {PieceCommandRun(handler, pos, u, k.flag) :
             k \in {k \in KEYWORDS[handler] : Routed(u, k.keyword)}}

\* two sets of results are the same and hold result o
SameRuns(takesRuns, cakesRuns, o) == takesRuns = cakesRuns /\ o \in takesRuns

\* C11: a piece command said with "cakes" leaves the board and the spoken
\* output that the same command said with "takes" leaves, for the same
\* answers of the engine: the two phrases have the same set of results on
\* the board of the command, and what the command left is one of them.
C11_CakesAsTakes ==
    (Done /\ cmd.handler \in PieceHandlers /\ CakesAt(cmd.text) # {})
        => SameRuns(RoutedRuns(cmd.handler, prev, WithTakes(cmd.text)),
                    RoutedRuns(cmd.handler, prev, cmd.text), Outcome)

\* a pawn capture said with "cakes" was applied and answered
C11_Witness ==
    /\ Replied
    /\ cmd.handler = "PawnMove"
    /\ CakesAt(cmd.text) # {}
    /\ TypeOf(prev.pieces[human.from]) = "P"
    /\ IsCapture(prev, human)

Applied(m) ==
    /\ human = m
    /\ Len(board.move_stack) > Len(prev.move_stack)
    /\ board.move_stack[Len(prev.move_stack) + 1] = m

\* the move from the square a phrase starts with to the square it ends with
OriginToDestination(n) == Move(SquareIndex(Upto(n, 2)), SquareIndex(Last(n, 2)), "")

\* the legal moves of a piece type to the square a phrase ends with
ToDestination(pos, letter, n) ==
    {m \in legal_moves(pos) :
        /\ TypeOf(pos.pieces[m.from]) = letter
        /\ ~IsCastling(pos, m)
        /\ m.to = SquareIndex(Last(n, 2))}

\* C13: for a knight, bishop, rook, queen or king command, a normalized
\* phrase of more than 12 characters that starts with an origin square and
\* ends with a destination square has the move from the one to the other
\* applied when it is legal; a phrase of at most 12 characters ending with a
\* destination square has the one legal move of the piece type to that
\* square applied, when there is exactly one.
C13_ExplicitOrigin ==
    (Done /\ cmd.handler \in PieceHandlers \ {"PawnMove"} /\ IsSquareName(Last(Normalize(cmd.text), 2)))
        => IF Len(Normalize(cmd.text)) > 12
           THEN (/\ IsSquareName(Upto(Normalize(cmd.text), 2))
                 /\ OriginToDestination(Normalize(cmd.text)) \in legal_moves(prev))
                    => Applied(OriginToDestination(Normalize(cmd.text)))
           ELSE \A m \in ToDestination(prev, HANDLER_PIECE[cmd.handler], Normalize(cmd.text)) :
                    ToDestination(prev, HANDLER_PIECE[cmd.handler], Normalize(cmd.text)) = {m}
                        => Applied(m)

\* the piece the engine's reply moved, and the replies to its destination by
\* pieces of that type
ReplyPiece == TypeOf(Before.pieces[reply.from])
ReplyRivals ==
    {m \in legal_moves(Before) :
        TypeOf(Before.pieces[m.from]) = ReplyPiece /\ m.to = reply.to}

\* C14: for every engine reply, with or without check: the base phrase of a
\* pawn move without capture is the name of the destination square alone; the
\* base phrase of a knight, bishop, rook, queen or king move without capture
\* that no other piece of the type could make is "<piece name> to
\* <destination square>"; and the base phrase is never empty.
C14_ReplyBasePhrase ==
    (Replied /\ reply # NullMove)
        => /\ (ReplyPiece = "P" /\ ~IsCapture(Before, reply) /\ reply.promotion = "")
                => BasePhrase(ReplyNotation) = SquareName(reply.to)
           /\ (/\ ReplyPiece \in DOMAIN PIECE_NAMES
               /\ ~IsCapture(Before, reply)
               /\ ~IsCastling(Before, reply)
               /\ ReplyRivals = {reply})
                => BasePhrase(ReplyNotation) = PIECE_NAMES[ReplyPiece] \o STR_TO \o SquareName(reply.to)
           /\ BasePhrase(ReplyNotation) # <<>>

STR_TAKES_WORD == <<"t", "a", "k", "e", "s">>

\* C15: for every engine reply, the base phrase holds the word "takes" if and
\* only if the reply is a capture, whatever the length of its notation.
C15_TakesIffCapture ==
    (Replied /\ reply # NullMove)
        => (Contains(BasePhrase(ReplyNotation), STR_TAKES_WORD) <=> IsCapture(Before, reply))

\* C16: a piece command leaves the board as it was, or the human move it
\* applied is a move of the handler's piece type (the pawn handler moves a
\* pawn and no other piece) and, for a command registered with the capture
\* flag, a capture.
C16_DeclaredTypeAndClass ==
    (Done /\ cmd.handler \in PieceHandlers)
        => \/ board = prev
           \/ /\ human # NoMove
              /\ TypeOf(prev.pieces[human.from]) = HANDLER_PIECE[cmd.handler]
              /\ (cmd.flag => IsCapture(prev, human))

\* C17: every chess command (new game, a piece move, a castle) says exactly
\* one phrase; after an engine reply that phrase is the phrase of the reply
\* and of the position it leaves, whichever handler ran.
C17_SaysOnce ==
    (Done /\ cmd.handler \in MoveHandlers \cup {"NewGame"})
        => /\ Len(said) = 1
           /\ (reply # NoMove /\ reply # NullMove)
                => said = <<StatusPhrase(board, BasePhrase(ReplyNotation))>>

====
